---- MODULE Spec2Model ----
(***************************************************************************)
(* Model of the Genie MCP server (src/main.py): the space list, the space   *)
(* metadata fetch and the submit -> poll -> fetch protocol of ask_genie    *)
(* and follow_up.                                                          *)
(*                                                                         *)
(* An optional value (a Python None, an absent JSON key, a local that is   *)
(* not bound yet) is a sequence of length at most one: <<>> or <<v>>.      *)
(***************************************************************************)
EXTENDS Integers, Sequences, FiniteSets, TLC

\* ------------------------------------------------------------------ bounds

MaxCols == 1        \* columns of a fetched result schema
MaxRowLen == 1      \* cells of one fetched row
MaxRows == 1        \* rows of a fetched result
TableCols == 2      \* columns and rows of the results of SpecTable
TableRows == 2
ConcPolls == 2      \* polls after which the service of SpecConc has settled a message
MaxExtra == 1       \* attachments after the first one

\* ------------------------------------------------------- program constants

MaxAttempts == 60            \* ask_genie: for _ in range(60)
PollInterval == 5            \* ask_genie: time.sleep(5)
FollowUpMaxAttempts == 60    \* follow_up: for _ in range(60)
FollowUpPollInterval == 5    \* follow_up: time.sleep(5)

\* ------------------------------------------------------------ input values

SpaceIds == {"s1"}
ConvIds == {"c1", "c2"}
MsgIds == {"m1", "m2"}
ColNames == {"a", "b"}

None == <<>>
Some(v) == <<v>>
Opt(S) == {None} \cup {Some(v) : v \in S}

SeqsUpTo(S, n) == UNION {[1..k -> S] : k \in 0..n}
NonEmptySeqsUpTo(S, n) == UNION {[1..k -> S] : k \in 1..n}

\* A JSON cell of data_array: null, a number or a string.
NullCell == [t |-> "null", n |-> 0, s |-> ""]
IntCell(i) == [t |-> "int", n |-> i, s |-> ""]
StrCell(x) == [t |-> "str", n |-> 0, s |-> x]
Cells == {NullCell, IntCell(1)}

\* ---------------------------------------------------------------- exceptions

\* The classes an exception is an instance of (requests.exceptions and builtins).
\* requests.JSONDecodeError derives from RequestException and from ValueError;
\* a plain json decoder error is a ValueError only.
Ancestors(e) ==
    CASE e = "HTTPError"        -> {"HTTPError", "RequestException", "Exception"}
      [] e = "Timeout"          -> {"Timeout", "RequestException", "Exception"}
      [] e = "ConnectionError"  -> {"ConnectionError", "RequestException", "Exception"}
      [] e = "JSONDecodeError"  -> {"JSONDecodeError", "RequestException", "ValueError", "Exception"}
      [] e = "ValueError"       -> {"ValueError", "Exception"}
      [] e = "KeyError"         -> {"KeyError", "Exception"}
      [] e = "TypeError"        -> {"TypeError", "Exception"}
      [] e = "AttributeError"   -> {"AttributeError", "Exception"}
      [] e = "IndexError"       -> {"IndexError", "Exception"}
      [] OTHER                  -> {e}

\* What a remote call can raise: requests.get/post, raise_for_status, resp.json(),
\* and a body that is not a JSON object.
RemoteErrors == {"ConnectionError", "Timeout", "HTTPError", "JSONDecodeError",
                 "ValueError", "TypeError"}

\* The first except clause (class, outcome kind) that matches, or None.
FirstMatch(e, clauses) ==
    LET hits == {i \in 1..Len(clauses) : clauses[i][1] \in Ancestors(e)}
    IN IF hits = {} THEN None
       ELSE Some(clauses[CHOOSE i \in hits : \A j \in hits : i <= j][2])

\* except clauses of get_genie_space_metadata, in order.
MetadataClauses ==
    << <<"HTTPError", "http_error">>,
       <<"Timeout", "request_timeout">>,
       <<"RequestException", "request_error">>,
       <<"ValueError", "json_error">>,
       <<"Exception", "unexpected_error">> >>

\* A handler that catches the errors of `requests` only.
PollerClausesRequestsOnly == << <<"RequestException", "error">> >>

\* except clause of ask_genie.
PollerClauses == << <<"Exception", "error">> >>

\* ------------------------------------------------------------------ outcomes

NoTable == None

Outcome(kind) ==
    [kind |-> kind, status |-> None, conv |-> None, sql |-> None, text |-> None,
     table |-> NoTable, exc |-> None, meta |-> None, spaces |-> None]

ErrorOutcome(kind, e) == [Outcome(kind) EXCEPT !.exc = Some(e)]

\* ------------------------------------------------------- remote responses

\* A response of a remote call: an exception raised by the call (requests.get or
\* requests.post, raise_for_status, resp.json()), or the JSON body.
Raise(e) == [raise |-> Some(e), body |-> None]
Ok(b) == [raise |-> None, body |-> Some(b)]

\* start_conversation: {"conversation": {"id"}, "message": {"id"}}; a field may be missing.
StartResponses ==
    {Raise(e) : e \in RemoteErrors}
    \cup {Ok([conversation |-> c, message |-> m]) : c \in Opt(ConvIds), m \in Opt(MsgIds)}

\* post_message: {"id"}; the field may be missing.
PostResponses ==
    {Raise(e) : e \in RemoteErrors}
    \cup {Ok([id |-> m]) : m \in Opt(MsgIds)}

\* An attachment of a message: attachment_id, text and query; text and query may be missing.
FirstAttachments ==
    [attachment_id : {Some("att1")}, text : Opt({"t1"}), query : Opt({"SELECT 1"})]

LaterAttachment == [attachment_id |-> Some("att2"), text |-> Some("t2"), query |-> Some("SELECT 2")]

\* "attachments" of a message: key absent, JSON null, or a list.
AttachmentLists ==
    {[shape |-> "absent", items |-> <<>>], [shape |-> "null", items |-> <<>>],
     [shape |-> "list", items |-> <<>>]}
    \cup {[shape |-> "list", items |-> <<a>> \o [i \in 1..k |-> LaterAttachment]] :
            a \in FirstAttachments, k \in 0..MaxExtra}

Statuses == {"EXECUTING_QUERY", "COMPLETED", "FAILED", "CANCELLED"}

\* get_message: {"status", "attachments"}; the status may be missing. Attachments are
\* read only when the status is COMPLETED.
MessageResponses ==
    {Raise(e) : e \in RemoteErrors}
    \cup {Ok([status |-> None, attachments |-> [shape |-> "absent", items |-> <<>>]])}
    \cup {Ok([status |-> Some(st), attachments |-> [shape |-> "absent", items |-> <<>>]]) :
            st \in Statuses \ {"COMPLETED"}}
    \cup {Ok([status |-> Some("COMPLETED"), attachments |-> al]) : al \in AttachmentLists}

Columns == {[name |-> c] : c \in ColNames}

\* "manifest" with at most `c` columns; every level may be missing.
Manifests(c) ==
    {None, Some([schema |-> None]), Some([schema |-> Some([columns |-> None])])}
    \cup {Some([schema |-> Some([columns |-> Some(cs)])]) : cs \in SeqsUpTo(Columns, c)}

\* "result" with at most `n` rows of at most `l` cells; every level may be missing.
Results(l, n) ==
    {None, Some([data_array |-> None])}
    \cup {Some([data_array |-> Some(rs)]) : rs \in SeqsUpTo(SeqsUpTo(Cells, l), n)}

\* A manifest that is missing, and the manifest of one column.
PlainManifests ==
    {None, Some([schema |-> Some([columns |-> Some(<<[name |-> "a"]>>)])])}

\* A result that is missing, and the result of one row with one cell.
PlainResults == {None, Some([data_array |-> Some(<< <<IntCell(1)>> >>)])}

\* get_query_result: {"statement_response": {"manifest": {"schema": {"columns"}},
\* "result": {"data_array"}}}: any manifest with a plain result, and a plain manifest
\* with any result.
QueryResults(c, l, n) ==
    {[statement_response |-> None]}
    \cup {[statement_response |-> Some([manifest |-> m, result |-> r])] :
            m \in Manifests(c), r \in PlainResults}
    \cup {[statement_response |-> Some([manifest |-> m, result |-> r])] :
            m \in PlainManifests, r \in Results(l, n)}

QueryResultResponses(c, l, n) ==
    {Raise(e) : e \in RemoteErrors} \cup {Ok(q) : q \in QueryResults(c, l, n)}

\* The responses to get_query_result that Spec draws from.
BoundedResultResponses == QueryResultResponses(MaxCols, MaxRowLen, MaxRows)

\* describe_space: a JSON object holding some of the three keys, each with a string or
\* a null.
SpaceKeys == {"space_id", "title", "description"}
SpaceValues == Opt({"v"})
SpaceBodies == UNION {[ks -> SpaceValues] : ks \in SUBSET SpaceKeys}
SpaceResponses ==
    {Raise(e) : e \in RemoteErrors} \cup {Ok(b) : b \in SpaceBodies}

\* The list literal returned by get_genie_space_id.
SpaceDirectory ==
    << [space_id |-> "01f01a54963a1c94b80020c9048124", title |-> "Bakehouse Sales Space"],
       [space_id |-> "a9bc12345d29169db030324fd0aaaaaa", title |-> "Customer Insights"],
       [space_id |-> "b7de67890f29169db030324fd0bbbbbb", title |-> "Test Space"] >>

\* ------------------------------------------------------- result normalisation

\* dict.get(key, default) on an optional field.
Get(field, default) == IF field = None THEN default ELSE field[1]

\* statement.get("manifest", {}).get("schema", {}).get("columns", [])
SchemaOf(result_json) ==
    LET statement == Get(result_json.statement_response, [manifest |-> None, result |-> None])
        manifest == Get(statement.manifest, [schema |-> None])
        schema == Get(manifest.schema, [columns |-> None])
    IN Get(schema.columns, <<>>)

\* statement.get("result", {}).get("data_array", [])
RowsOf(result_json) ==
    LET statement == Get(result_json.statement_response, [manifest |-> None, result |-> None])
        result == Get(statement.result, [data_array |-> None])
    IN Get(result.data_array, <<>>)

\* str(n) for the numbers of Cells.
IntStr(n) ==
    CASE n = 0 -> "0" [] n = 1 -> "1" [] n = 2 -> "2" [] n = 3 -> "3" [] n = 4 -> "4"
      [] n = 5 -> "5" [] n = 6 -> "6" [] n = 7 -> "7" [] n = 8 -> "8" [] n = 9 -> "9"

\* str(cell) if cell is not None else "NULL"
CellStr(cell) ==
    CASE cell.t = "null" -> "NULL"
      [] cell.t = "int" -> IntStr(cell.n)
      [] cell.t = "str" -> cell.s

\* headers_row = [col["name"] for col in schema]
HeadersRow(schema) == [i \in 1..Len(schema) |-> schema[i].name]

\* headers_row[i] for i, cell in enumerate(row): IndexError on a row longer than the headers.
RowRaises(headers_row, row) == Len(row) > Len(headers_row)

\* {headers_row[i]: str(cell) ... for i, cell in enumerate(row)}: a dict, in which a
\* later cell under the same header replaces an earlier one.
StructuredRow(headers_row, row) ==
    LET keys == {headers_row[i] : i \in 1..Len(row)}
        last(h) == CHOOSE i \in 1..Len(row) :
                      /\ headers_row[i] = h
                      /\ \A j \in 1..Len(row) : headers_row[j] = h => j <= i
    IN [h \in keys |-> CellStr(row[last(h)])]

\* table = {"headers": headers_row, "rows": structured_rows}
BuildTable(schema, rows) ==
    LET headers_row == HeadersRow(schema)
    IN [headers |-> headers_row,
        rows |-> [r \in 1..Len(rows) |-> StructuredRow(headers_row, rows[r])]]

TableRaises(schema, rows) ==
    \E r \in 1..Len(rows) : RowRaises(HeadersRow(schema), rows[r])

\* --------------------------------------------------------------------- state

VARIABLES
    op,               \* the operation invoked: "none", "list_spaces", "get_space_info",
                      \* "ask_genie", "follow_up"
    pc,               \* "idle", "list", "describe", "submit", "poll", "sleep", "fetch",
                      \* "returned", "raised", "held_mutated"
    space_id,         \* argument space_id
    arg_conv,         \* argument conversation_id of follow_up (None for the other operations)
    conversation_id,  \* local conversation_id (None while unbound)
    message_id,       \* local message_id (None while unbound)
    attempt,          \* iterations of `for _ in range(60)` begun
    msg_data,         \* body of the last get_message response
    result_json,      \* body of the last get_query_result response
    outcome,          \* the value returned (None while running)
    raised,           \* the exception that left the operation (None if none did)
    n_submit,         \* start-conversation / post-message requests issued by this invocation
    n_poll,           \* get_message requests issued by this invocation
    n_fetch,          \* get_query_result requests issued by this invocation
    targets,          \* what the requests of this invocation were addressed to
    waited,           \* time spent in time.sleep by this invocation
    started,          \* conversation id that start-conversation returned to this invocation
    seen,             \* what each get_message of this invocation returned, in order
    fault,            \* the exception raised inside this invocation and where (None if none)
    space_data,       \* body of the describe-space response of this invocation
    submitted,        \* body of the start-conversation / post-message response of this invocation
    chain,            \* follow_up called with the id read from the preceding ask_genie outcome:
                      \* the id that ask_genie's start-conversation had returned
    other,            \* the locals of a second invocation, suspended while this one runs
    shared            \* what every invocation reads: module globals and the space list literal

\* The variables of one invocation.
frame == <<op, pc, space_id, arg_conv, conversation_id, message_id, attempt, msg_data,
           result_json, outcome, raised, n_submit, n_poll, n_fetch, targets, waited,
           started, seen, fault, space_data, submitted, chain>>

vars == <<frame, other, shared>>

\* DATABRICKS_HOST, HEADERS and the list literal of get_genie_space_id.
SharedAtStart ==
    [host |-> "DATABRICKS_HOST", authorization |-> "Bearer DATABRICKS_TOKEN",
     directory |-> SpaceDirectory]

\* The locals of an invocation that has not been called.
IdleFrame ==
    [op |-> "none", pc |-> "idle", space_id |-> None, arg_conv |-> None,
     conversation_id |-> None, message_id |-> None, attempt |-> 0, msg_data |-> None,
     result_json |-> None, outcome |-> None, raised |-> None, n_submit |-> 0,
     n_poll |-> 0, n_fetch |-> 0, targets |-> {}, waited |-> 0, started |-> None,
     seen |-> <<>>, fault |-> None, space_data |-> None, submitted |-> None, chain |-> None]

\* The locals of the invocation that is running.
Running ==
    [op |-> op, pc |-> pc, space_id |-> space_id, arg_conv |-> arg_conv,
     conversation_id |-> conversation_id, message_id |-> message_id, attempt |-> attempt,
     msg_data |-> msg_data, result_json |-> result_json, outcome |-> outcome,
     raised |-> raised, n_submit |-> n_submit, n_poll |-> n_poll, n_fetch |-> n_fetch,
     targets |-> targets, waited |-> waited, started |-> started, seen |-> seen,
     fault |-> fault, space_data |-> space_data, submitted |-> submitted,
     chain |-> chain]

Init ==
    /\ op = "none"
    /\ pc = "idle"
    /\ space_id = None
    /\ arg_conv = None
    /\ conversation_id = None
    /\ message_id = None
    /\ attempt = 0
    /\ msg_data = None
    /\ result_json = None
    /\ outcome = None
    /\ raised = None
    /\ n_submit = 0
    /\ n_poll = 0
    /\ n_fetch = 0
    /\ targets = {}
    /\ waited = 0
    /\ started = None
    /\ seen = <<>>
    /\ fault = None
    /\ space_data = None
    /\ submitted = None
    /\ chain = None
    /\ other = IdleFrame
    /\ shared = SharedAtStart

\* Entries of `seen` for a get_message that raised, or whose body held no status.
PollRaised == "(raised)"
PollNoStatus == "(no status)"

Fault(phase, e) == Some([phase |-> phase, exc |-> e])

Request(call, conv, msg, att) == [call |-> call, conv |-> conv, msg |-> msg, att |-> att]

\* ------------------------------------------------------------ code fragments

\* conversation_id = data["conversation"]["id"]
AskConversationId(data) == data.conversation

\* message_id = data["message"]["id"]
AskMessageId(data) == data.message

\* f"{base_url}/conversations/{conversation_id}/messages" of follow_up
PostMessageTarget(conv_arg) == Request("post_message", conv_arg, None, None)

\* The two ids in the wrong order.
GetMessageTargetSwapped(conv, msg) == Request("get_message", msg, conv, None)

\* f"{base_url}/conversations/{conversation_id}/messages/{message_id}"
GetMessageTarget(conv, msg) == Request("get_message", conv, msg, None)

\* f"{base_url}/conversations/{conversation_id}/messages/{message_id}/query-result/{attachment_id}"
QueryResultTarget(conv, msg, att) == Request("get_query_result", conv, msg, att)

\* A status test that knows FAILED only.
IsTerminalFailureFailedOnly(status) == status = "FAILED"

\* elif status in {"FAILED", "CANCELLED"}
IsTerminalFailure(status) == status \in {"FAILED", "CANCELLED"}

\* if not attachments  (attachments = msg_data.get("attachments", []))
NoAttachments(attachments) == attachments.shape # "list" \/ attachments.items = <<>>

\* The last attachment in place of the first.
LastAttachment(attachments) == attachments.items[Len(attachments.items)]

\* attachment = attachments[0]
FirstAttachment(attachments) == attachments.items[1]

\* `and` in place of `or`.
NoDataBoth(schema, rows) == schema = <<>> /\ rows = <<>>

\* if not schema or not rows
NoData(schema, rows) == schema = <<>> \/ rows = <<>>

\* A loop that runs one iteration too many.
LoopContinuesOffByOne(k) == k <= MaxAttempts

\* A loop that never ends by itself.
LoopContinuesForever(k) == TRUE

\* A loop of 59 iterations.
LoopContinuesOneShort(k) == k < MaxAttempts - 1

\* for _ in range(60): another iteration follows the one numbered `k`
LoopContinues(k) == k < MaxAttempts

\* A wait of twice the interval.
SleptLonger(w) == w + 2 * PollInterval

\* time.sleep(5): the time waited so far, after one more wait
Slept(w) == w + PollInterval

\* A message without attachments reported as an error.
NoResultOutcomeAsError == ErrorOutcome("error", "IndexError")

\* return f" Query completed but no result data."
NoResultOutcome == Outcome("no_result_data")

\* return f" Genie returned status: {status}"
FailedOutcome(status) == [Outcome("failed") EXCEPT !.status = Some(status)]

\* return f"Timeout waiting for Genie response. conversation_id: `{conversation_id}`"
TimeoutOutcome(conv) == [Outcome("timeout") EXCEPT !.conv = conv]

\* return f" SQL:\n```sql\n{sql}\n```\n\n Genie:\n{query_text}\n\n No data returned."
NoDataOutcome(sql, query_text) ==
    [Outcome("no_data_returned") EXCEPT !.sql = Some(sql), !.text = Some(query_text)]

\* return f" Genie:\n{query_text}..SQL:..{sql}..Query Result:\n\n{table} Conversation ID:\n\n{conversation_id}"
SuccessOutcome(sql, query_text, table, conv) ==
    [Outcome("success") EXCEPT !.sql = Some(sql), !.text = Some(query_text),
                               !.table = Some(table), !.conv = conv]

\* A validation that forgets the description.
MetadataIncompleteNoDescription(body) == ~ ({"space_id", "title"} \subseteq DOMAIN body)

\* if not all(key in data for key in ("space_id", "title", "description"))
MetadataIncomplete(body) == ~ (SpaceKeys \subseteq DOMAIN body)

\* f"{value}": the string itself, "None" for a null.
Formatted(value) == IF value = None THEN "None" ELSE value[1]

\* data['space_id'], data['title'], data['description'] in the f-string: KeyError on a
\* missing key.
FormatRaises(body) == \E k \in SpaceKeys : k \notin DOMAIN body

\* return f" Genie Space Metadata ... `space_id` ... `title` ... `description` ..."
MetadataOutcome(body) ==
    [Outcome("metadata") EXCEPT !.meta = Some([k \in SpaceKeys |-> Formatted(body[k])])]

\* return "Incomplete space metadata received from Genie API."
IncompleteOutcome == Outcome("incomplete")

\* The operation ends by returning `o`.
Return(o) ==
    /\ pc' = "returned"
    /\ outcome' = Some(o)
    /\ raised' = None

\* Exception `e` reaches the except clauses `clauses` of the operation.
Fail(e, clauses) ==
    LET kind == FirstMatch(e, clauses)
    IN IF kind = None
       THEN /\ pc' = "raised"
            /\ outcome' = None
            /\ raised' = Some(e)
       ELSE Return(ErrorOutcome(kind[1], e))

\* query_text = attachment.get("text", "No text.")
QueryText(attachment) == Get(attachment.text, "No text.")

\* sql = attachment.get("query", "No SQL.")
Sql(attachment) == Get(attachment.query, "No SQL.")

\* A submit that is tried again after an exception.
OnSubmitErrorRetry(e) ==
    /\ pc' = "submit"
    /\ UNCHANGED <<outcome, raised>>

\* An exception raised inside the try block of ask_genie while submitting.
OnSubmitError(e) == Fail(e, PollerClauses)

\* A polling loop that swallows the exception and goes on to the next iteration.
OnPollErrorContinue(e) ==
    /\ pc' = "sleep"
    /\ UNCHANGED <<outcome, raised>>

\* An exception raised inside the try block of ask_genie while polling.
OnPollError(e) == Fail(e, PollerClauses)

\* A failed result fetch that sends the loop back to polling.
OnFetchErrorRepoll(e) ==
    /\ pc' = "poll"
    /\ UNCHANGED <<outcome, raised>>

\* An exception raised inside the try block of ask_genie while fetching or formatting
\* the result.
OnFetchError(e) == Fail(e, PollerClauses)

\* An exception raised inside the try block of get_genie_space_metadata.
OnMetadataError(e) == Fail(e, MetadataClauses)

\* return [ {...}, {...}, {...} ]: the entries of the list literal, in its order
GetGenieSpaceId(directory) == directory

\* The value returned by get_genie_space_id.
SpacesOutcome(l) == [Outcome("spaces") EXCEPT !.spaces = Some(l)]

\* What a caller may write into a list it holds.
HeldWrites(l) ==
    {Tail(l), [l EXCEPT ![1].title = "renamed"],
     Append(l, [space_id |-> "added", title |-> "added"])}

\* A list kept by the module and handed out by reference: the caller's write is a
\* write into it.
DirectoryAliased(directory, held) == held

\* The list literal is evaluated at every call, so the caller holds a list of its
\* own: the entries the next call returns after the caller wrote `held` into it
DirectoryAfterCallerWrite(directory, held) == directory

\* A request that writes into the headers it is given.
SharedAfterRequestWrites(sh) == [sh EXCEPT !.authorization = "overwritten"]

\* requests.get(url, headers=HEADERS) / requests.post(url, headers=HEADERS, json=...):
\* the module globals after a request, which reads them
SharedAfterRequest(sh) == sh

\* ------------------------------------------------- code fragments of follow_up

\* except Exception as e: return f"Follow-up error: {str(e)}"
FollowUpClauses == << <<"Exception", "error">> >>

\* message_id = resp.json()["id"]
FollowUpMessageId(body) == body.id

\* f"{base_url}/conversations/{conversation_id}/messages/{message_id}"
FollowUpGetMessageTarget(conv, msg) == Request("get_message", conv, msg, None)

\* f"{base_url}/conversations/{conversation_id}/messages/{message_id}/query-result/{attachment_id}"
FollowUpQueryResultTarget(conv, msg, att) == Request("get_query_result", conv, msg, att)

\* elif status in {"FAILED", "CANCELLED"}
FollowUpIsTerminalFailure(status) == status \in {"FAILED", "CANCELLED"}

\* if not attachments  (attachments = msg_data.get("attachments", []))
FollowUpNoAttachments(attachments) ==
    attachments.shape # "list" \/ attachments.items = <<>>

\* attachment = attachments[0]
FollowUpFirstAttachment(attachments) == attachments.items[1]

\* query_text = attachment.get("text", "No text.")
FollowUpQueryText(attachment) == Get(attachment.text, "No text.")

\* sql = attachment.get("query", "No SQL.")
FollowUpSql(attachment) == Get(attachment.query, "No SQL.")

\* statement.get("manifest", {}).get("schema", {}).get("columns", [])
FollowUpSchemaOf(result_json_body) == SchemaOf(result_json_body)

\* statement.get("result", {}).get("data_array", [])
FollowUpRowsOf(result_json_body) == RowsOf(result_json_body)

\* A test that looks at the rows only.
FollowUpNoDataRowsOnly(schema, rows) == rows = <<>>

\* if not schema or not rows
FollowUpNoData(schema, rows) == schema = <<>> \/ rows = <<>>

\* col["name"] or headers_row[i] raising in the comprehensions
FollowUpTableRaises(schema, rows) == TableRaises(schema, rows)

\* table = {"headers": headers_row, "rows": structured_rows}
FollowUpBuildTable(schema, rows) ==
    [headers |-> HeadersRow(schema),
     rows |-> [r \in 1..Len(rows) |-> StructuredRow(HeadersRow(schema), rows[r])]]

\* for _ in range(60): another iteration follows the one numbered `k`
FollowUpLoopContinues(k) == k < FollowUpMaxAttempts

\* time.sleep(5): the time waited so far, after one more wait
FollowUpSlept(w) == w + FollowUpPollInterval

\* return f" Follow-up completed but no result data."
FollowUpNoResultOutcome == Outcome("no_result_data")

\* return f"Follow-up failed. Status: {status}"
FollowUpFailedOutcome(status) == [Outcome("failed") EXCEPT !.status = Some(status)]

\* return f"Timeout waiting for follow-up result. conversation_id: `{conversation_id}`"
FollowUpTimeoutOutcome(conv) == [Outcome("timeout") EXCEPT !.conv = conv]

\* return f"SQL:\n```sql\n{sql}\n```\n\nGenie:\n{query_text}\n\nNo data returned."
FollowUpNoDataOutcome(sql, query_text) ==
    [Outcome("no_data_returned") EXCEPT !.sql = Some(sql), !.text = Some(query_text)]

\* return f"Genie (Follow-up):\n{query_text}..SQL:..{sql}..Query Result:\n\n{table} Conversation ID:\n\n{conversation_id}"
FollowUpSuccessOutcome(sql, query_text, table, conv) ==
    [Outcome("success") EXCEPT !.sql = Some(sql), !.text = Some(query_text),
                               !.table = Some(table), !.conv = conv]

\* An exception raised inside the try block of follow_up while submitting.
FollowUpOnSubmitError(e) == Fail(e, FollowUpClauses)

\* An exception raised inside the try block of follow_up while polling.
FollowUpOnPollError(e) == Fail(e, FollowUpClauses)

\* An exception raised inside the try block of follow_up while fetching or formatting
\* the result.
FollowUpOnFetchError(e) == Fail(e, FollowUpClauses)

\* -------------------------------------------------------------------- actions

\* The state of a fresh invocation of `o`.
Enter(o, space_arg, conv_arg, first_pc) ==
    /\ pc \in {"idle", "returned", "raised", "held_mutated"}
    /\ op' = o
    /\ pc' = first_pc
    /\ space_id' = space_arg
    /\ arg_conv' = conv_arg
    /\ conversation_id' = conv_arg
    /\ message_id' = None
    /\ attempt' = 0
    /\ msg_data' = None
    /\ result_json' = None
    /\ outcome' = None
    /\ raised' = None
    /\ n_submit' = 0
    /\ n_poll' = 0
    /\ n_fetch' = 0
    /\ targets' = {}
    /\ waited' = 0
    /\ started' = None
    /\ seen' = <<>>
    /\ fault' = None
    /\ space_data' = None
    /\ submitted' = None
    /\ UNCHANGED <<other, shared>>

\* The client calls the tool list_spaces (or reads genie-space://details), possibly
\* after writing into the list an earlier call returned.
CallListSpaces ==
    /\ Enter("list_spaces", None, None, "list")
    /\ chain' = IF pc = "held_mutated" THEN Some("held list written") ELSE None

\* The client calls the tool get_space_info (or reads genie-space-details://{space_id}).
CallGetSpaceInfo ==
    \E space \in SpaceIds :
        /\ Enter("get_space_info", Some(space), None, "describe")
        /\ chain' = None

\* The client calls the tool ask_genie.
CallAskGenie ==
    \E space \in SpaceIds :
        /\ Enter("ask_genie", Some(space), None, "submit")
        /\ chain' = None

\* The client calls the tool follow_up with a conversation id of its own choice.
CallFollowUp ==
    \E space \in SpaceIds, conv \in ConvIds :
        /\ Enter("follow_up", Some(space), Some(conv), "submit")
        /\ chain' = None

\* The client calls follow_up with the conversation id it reads in the outcome of the
\* ask_genie call that has just returned.
CallFollowUpFromAsk ==
    /\ op = "ask_genie"
    /\ pc = "returned"
    /\ outcome[1].conv # None
    /\ Enter("follow_up", space_id, outcome[1].conv, "submit")
    /\ chain' = started

\* get_genie_space_id: return the list.
ListSpaces ==
    /\ op = "list_spaces"
    /\ pc = "list"
    /\ Return(SpacesOutcome(GetGenieSpaceId(shared.directory)))
    /\ UNCHANGED <<other, shared>>
    /\ UNCHANGED <<op, space_id, arg_conv, conversation_id, message_id, attempt, msg_data,
                   result_json, n_submit, n_poll, n_fetch, targets, waited, started, seen,
                   fault, space_data, submitted, chain>>

\* The caller writes into the list that list_spaces returned to it: drops the first
\* entry, renames it, or appends an entry.
CallerWritesList ==
    /\ op = "list_spaces"
    /\ pc = "returned"
    /\ \E held \in HeldWrites(outcome[1].spaces[1]) :
          /\ outcome' = Some([outcome[1] EXCEPT !.spaces = Some(held)])
          /\ shared' = [shared EXCEPT
                          !.directory = DirectoryAfterCallerWrite(shared.directory, held)]
    /\ pc' = "held_mutated"
    /\ UNCHANGED other
    /\ UNCHANGED <<op, space_id, arg_conv, conversation_id, message_id, attempt, msg_data,
                   result_json, raised, n_submit, n_poll, n_fetch, targets, waited,
                   started, seen, fault, space_data, submitted, chain>>

\* get_genie_space_metadata: one GET, validation, formatting.
DescribeSpace ==
    /\ op = "get_space_info"
    /\ pc = "describe"
    /\ n_submit' = n_submit + 1
    /\ targets' = targets \cup {Request("describe_space", None, None, None)}
    /\ \E r \in SpaceResponses :
          IF r.raise # None
          THEN /\ OnMetadataError(r.raise[1])
               /\ fault' = Fault("describe", r.raise[1])
               /\ UNCHANGED space_data
          ELSE /\ space_data' = r.body
               /\ IF MetadataIncomplete(r.body[1])
                  THEN /\ Return(IncompleteOutcome)
                       /\ UNCHANGED fault
                  ELSE IF FormatRaises(r.body[1])
                  THEN /\ OnMetadataError("KeyError")
                       /\ fault' = Fault("describe", "KeyError")
                  ELSE /\ Return(MetadataOutcome(r.body[1]))
                       /\ UNCHANGED fault
    /\ shared' = SharedAfterRequest(shared)
    /\ UNCHANGED other
    /\ UNCHANGED <<op, space_id, arg_conv, conversation_id, message_id, attempt, msg_data,
                   result_json, n_poll, n_fetch, waited, started, seen, submitted, chain>>

\* ask_genie, step 1: POST start-conversation and read both ids.
StartConversation ==
    /\ op = "ask_genie"
    /\ pc = "submit"
    /\ n_submit' = n_submit + 1
    /\ targets' = targets \cup {Request("start_conversation", None, None, None)}
    /\ \E r \in StartResponses :
          IF r.raise # None
          THEN /\ OnSubmitError(r.raise[1])
               /\ fault' = Fault("submit", r.raise[1])
               /\ UNCHANGED <<conversation_id, message_id, started, submitted>>
          ELSE /\ started' = r.body[1].conversation
               /\ submitted' = r.body
               /\ IF AskConversationId(r.body[1]) = None \/ AskMessageId(r.body[1]) = None
                  THEN /\ OnSubmitError("KeyError")
                       /\ fault' = Fault("submit", "KeyError")
                       /\ UNCHANGED <<conversation_id, message_id>>
                  ELSE /\ conversation_id' = AskConversationId(r.body[1])
                       /\ message_id' = AskMessageId(r.body[1])
                       /\ pc' = "poll"
                       /\ UNCHANGED <<outcome, raised, fault>>
    /\ shared' = SharedAfterRequest(shared)
    /\ UNCHANGED other
    /\ UNCHANGED <<op, space_id, arg_conv, attempt, msg_data, result_json, n_poll, n_fetch,
                   waited, seen, space_data, chain>>

\* follow_up, step 1: POST the message to the conversation given and read its id.
PostMessage ==
    /\ op = "follow_up"
    /\ pc = "submit"
    /\ n_submit' = n_submit + 1
    /\ targets' = targets \cup {PostMessageTarget(conversation_id)}
    /\ \E r \in PostResponses :
          IF r.raise # None
          THEN /\ FollowUpOnSubmitError(r.raise[1])
               /\ fault' = Fault("submit", r.raise[1])
               /\ UNCHANGED <<message_id, submitted>>
          ELSE /\ submitted' = r.body
               /\ IF r.body[1].id = None
                  THEN /\ FollowUpOnSubmitError("KeyError")
                       /\ fault' = Fault("submit", "KeyError")
                       /\ UNCHANGED message_id
                  ELSE /\ message_id' = FollowUpMessageId(r.body[1])
                       /\ pc' = "poll"
                       /\ UNCHANGED <<outcome, raised, fault>>
    /\ shared' = SharedAfterRequest(shared)
    /\ UNCHANGED other
    /\ UNCHANGED <<op, space_id, arg_conv, conversation_id, attempt, msg_data, result_json,
                   n_poll, n_fetch, waited, started, seen, space_data, chain>>

\* Step 2, one iteration of the loop up to time.sleep: GET the message, read its status;
\* the response is one of `responses`.
PollFrom(responses) ==
    /\ op = "ask_genie"
    /\ pc = "poll"
    /\ attempt' = attempt + 1
    /\ n_poll' = n_poll + 1
    /\ targets' = targets \cup {GetMessageTarget(conversation_id, message_id)}
    /\ \E r \in responses :
          IF r.raise # None
          THEN /\ OnPollError(r.raise[1])
               /\ seen' = Append(seen, PollRaised)
               /\ fault' = Fault("poll", r.raise[1])
               /\ UNCHANGED msg_data
          ELSE /\ msg_data' = r.body
               /\ IF r.body[1].status = None
                  THEN /\ OnPollError("KeyError")
                       /\ seen' = Append(seen, PollNoStatus)
                       /\ fault' = Fault("poll", "KeyError")
                  ELSE /\ seen' = Append(seen, r.body[1].status[1])
                       /\ UNCHANGED fault
                       /\ IF r.body[1].status[1] = "COMPLETED"
                          THEN IF NoAttachments(r.body[1].attachments)
                               THEN Return(NoResultOutcome)
                               ELSE /\ pc' = "fetch"
                                    /\ UNCHANGED <<outcome, raised>>
                          ELSE IF IsTerminalFailure(r.body[1].status[1])
                          THEN Return(FailedOutcome(r.body[1].status[1]))
                          ELSE /\ pc' = "sleep"
                               /\ UNCHANGED <<outcome, raised>>
    /\ shared' = SharedAfterRequest(shared)
    /\ UNCHANGED other
    /\ UNCHANGED <<op, space_id, arg_conv, conversation_id, message_id, result_json,
                   n_submit, n_fetch, waited, started, space_data, submitted, chain>>

Poll == PollFrom(MessageResponses)

\* time.sleep(5) at the end of an iteration, then the next iteration or, after the
\* last one, the timeout return.
Sleep ==
    /\ op = "ask_genie"
    /\ pc = "sleep"
    /\ waited' = Slept(waited)
    /\ IF LoopContinues(attempt)
       THEN /\ pc' = "poll"
            /\ UNCHANGED <<outcome, raised>>
       ELSE Return(TimeoutOutcome(conversation_id))
    /\ UNCHANGED <<other, shared>>
    /\ UNCHANGED <<op, space_id, arg_conv, conversation_id, message_id, attempt, msg_data,
                   result_json, n_submit, n_poll, n_fetch, targets, started, seen, fault,
                   space_data, submitted, chain>>

\* Step 3: GET the query result of the first attachment and format the table; the
\* response is one of `responses`.
FetchFrom(responses) ==
    /\ op = "ask_genie"
    /\ pc = "fetch"
    /\ LET attachment == FirstAttachment(msg_data[1].attachments)
       IN /\ n_fetch' = n_fetch + 1
          /\ targets' = targets \cup
                {QueryResultTarget(conversation_id, message_id, attachment.attachment_id)}
          /\ \E r \in responses :
                IF r.raise # None
                THEN /\ OnFetchError(r.raise[1])
                     /\ fault' = Fault("fetch", r.raise[1])
                     /\ UNCHANGED result_json
                ELSE /\ result_json' = r.body
                     /\ LET schema == SchemaOf(r.body[1])
                            rows == RowsOf(r.body[1])
                        IN IF NoData(schema, rows)
                           THEN /\ Return(NoDataOutcome(Sql(attachment),
                                                        QueryText(attachment)))
                                /\ UNCHANGED fault
                           ELSE IF TableRaises(schema, rows)
                           THEN /\ OnFetchError("IndexError")
                                /\ fault' = Fault("fetch", "IndexError")
                           ELSE /\ Return(SuccessOutcome(Sql(attachment),
                                                         QueryText(attachment),
                                                         BuildTable(schema, rows),
                                                         conversation_id))
                                /\ UNCHANGED fault
    /\ shared' = SharedAfterRequest(shared)
    /\ UNCHANGED other
    /\ UNCHANGED <<op, space_id, arg_conv, conversation_id, message_id, attempt, msg_data,
                   n_submit, n_poll, waited, started, seen, space_data, submitted, chain>>

FetchResult == FetchFrom(BoundedResultResponses)

\* Step 2 of follow_up: one iteration of the polling loop up to the status test; the
\* response is one of `responses`.
FollowUpPollFrom(responses) ==
    /\ op = "follow_up"
    /\ pc = "poll"
    /\ attempt' = attempt + 1
    /\ n_poll' = n_poll + 1
    /\ targets' = targets \cup {FollowUpGetMessageTarget(conversation_id, message_id)}
    /\ \E r \in responses :
          IF r.raise # None
          THEN /\ FollowUpOnPollError(r.raise[1])
               /\ seen' = Append(seen, PollRaised)
               /\ fault' = Fault("poll", r.raise[1])
               /\ UNCHANGED msg_data
          ELSE /\ msg_data' = r.body
               /\ IF r.body[1].status = None
                  THEN /\ FollowUpOnPollError("KeyError")
                       /\ seen' = Append(seen, PollNoStatus)
                       /\ fault' = Fault("poll", "KeyError")
                  ELSE /\ seen' = Append(seen, r.body[1].status[1])
                       /\ UNCHANGED fault
                       /\ IF r.body[1].status[1] = "COMPLETED"
                          THEN IF FollowUpNoAttachments(r.body[1].attachments)
                               THEN Return(FollowUpNoResultOutcome)
                               ELSE /\ pc' = "fetch"
                                    /\ UNCHANGED <<outcome, raised>>
                          ELSE IF FollowUpIsTerminalFailure(r.body[1].status[1])
                          THEN Return(FollowUpFailedOutcome(r.body[1].status[1]))
                          ELSE /\ pc' = "sleep"
                               /\ UNCHANGED <<outcome, raised>>
    /\ shared' = SharedAfterRequest(shared)
    /\ UNCHANGED other
    /\ UNCHANGED <<op, space_id, arg_conv, conversation_id, message_id, result_json,
                   n_submit, n_fetch, waited, started, space_data, submitted, chain>>

FollowUpPoll == FollowUpPollFrom(MessageResponses)

\* follow_up: time.sleep(5) at the end of an iteration, then the next iteration or,
\* after the last one, the timeout return.
FollowUpSleep ==
    /\ op = "follow_up"
    /\ pc = "sleep"
    /\ waited' = FollowUpSlept(waited)
    /\ IF FollowUpLoopContinues(attempt)
       THEN /\ pc' = "poll"
            /\ UNCHANGED <<outcome, raised>>
       ELSE Return(FollowUpTimeoutOutcome(conversation_id))
    /\ UNCHANGED <<other, shared>>
    /\ UNCHANGED <<op, space_id, arg_conv, conversation_id, message_id, attempt, msg_data,
                   result_json, n_submit, n_poll, n_fetch, targets, started, seen, fault,
                   space_data, submitted, chain>>

\* Step 3 of follow_up: GET the query result of the first attachment and format the
\* table; the response is one of `responses`.
FollowUpFetchFrom(responses) ==
    /\ op = "follow_up"
    /\ pc = "fetch"
    /\ LET attachment == FollowUpFirstAttachment(msg_data[1].attachments)
       IN /\ n_fetch' = n_fetch + 1
          /\ targets' = targets \cup
                {FollowUpQueryResultTarget(conversation_id, message_id,
                                           attachment.attachment_id)}
          /\ \E r \in responses :
                IF r.raise # None
                THEN /\ FollowUpOnFetchError(r.raise[1])
                     /\ fault' = Fault("fetch", r.raise[1])
                     /\ UNCHANGED result_json
                ELSE /\ result_json' = r.body
                     /\ LET schema == FollowUpSchemaOf(r.body[1])
                            rows == FollowUpRowsOf(r.body[1])
                        IN IF FollowUpNoData(schema, rows)
                           THEN /\ Return(FollowUpNoDataOutcome(
                                            FollowUpSql(attachment),
                                            FollowUpQueryText(attachment)))
                                /\ UNCHANGED fault
                           ELSE IF FollowUpTableRaises(schema, rows)
                           THEN /\ FollowUpOnFetchError("IndexError")
                                /\ fault' = Fault("fetch", "IndexError")
                           ELSE /\ Return(FollowUpSuccessOutcome(
                                            FollowUpSql(attachment),
                                            FollowUpQueryText(attachment),
                                            FollowUpBuildTable(schema, rows),
                                            conversation_id))
                                /\ UNCHANGED fault
    /\ shared' = SharedAfterRequest(shared)
    /\ UNCHANGED other
    /\ UNCHANGED <<op, space_id, arg_conv, conversation_id, message_id, attempt, msg_data,
                   n_submit, n_poll, waited, started, seen, space_data, submitted, chain>>

FollowUpFetchResult == FollowUpFetchFrom(BoundedResultResponses)

Next ==
    \/ CallListSpaces
    \/ ListSpaces
    \/ CallerWritesList
    \/ CallGetSpaceInfo
    \/ CallAskGenie
    \/ CallFollowUp
    \/ CallFollowUpFromAsk
    \/ DescribeSpace
    \/ StartConversation
    \/ PostMessage
    \/ Poll
    \/ Sleep
    \/ FetchResult
    \/ FollowUpPoll
    \/ FollowUpSleep
    \/ FollowUpFetchResult

Spec == Init /\ [][Next]_vars

\* ------------------------------------------------ the table of a fetched result

\* Statement results as the service produces them: a schema of 1..c columns and
\* 1..n rows with one cell per column.
TableResults(c, n) ==
    {[statement_response |->
        Some([manifest |-> Some([schema |-> Some([columns |-> Some(cs)])]),
              result |-> Some([data_array |-> Some(rs)])])] :
        cs \in NonEmptySeqsUpTo(Columns, c), rs \in NonEmptySeqsUpTo(SeqsUpTo(Cells, c), n)}

WellFormed(result_json_body) ==
    \A r \in 1..Len(RowsOf(result_json_body)) :
        Len(RowsOf(result_json_body)[r]) = Len(SchemaOf(result_json_body))

TableResultResponses ==
    {Ok(q) : q \in {t \in TableResults(TableCols, TableRows) : WellFormed(t)}}

\* The states in which the first get_message of an invocation has just returned
\* COMPLETED with attachments: the result fetch comes next.
TableInit ==
    /\ op \in {"ask_genie", "follow_up"}
    /\ pc = "fetch"
    /\ space_id \in {Some(sp) : sp \in SpaceIds}
    /\ conversation_id \in {Some(c) : c \in ConvIds}
    /\ arg_conv = IF op = "follow_up" THEN conversation_id ELSE None
    /\ message_id \in {Some(m) : m \in MsgIds}
    /\ attempt = 1
    /\ msg_data \in {Some([status |-> Some("COMPLETED"), attachments |-> al]) :
                        al \in {x \in AttachmentLists : ~ NoAttachments(x)}}
    /\ result_json = None
    /\ outcome = None
    /\ raised = None
    /\ n_submit = 1
    /\ n_poll = 1
    /\ n_fetch = 0
    /\ targets = {IF op = "follow_up" THEN PostMessageTarget(conversation_id)
                  ELSE Request("start_conversation", None, None, None),
                  GetMessageTarget(conversation_id, message_id)}
    /\ waited = 0
    /\ started = IF op = "ask_genie" THEN conversation_id ELSE None
    /\ seen = <<"COMPLETED">>
    /\ fault = None
    /\ space_data = None
    /\ submitted = IF op = "ask_genie"
                   THEN Some([conversation |-> conversation_id, message |-> message_id])
                   ELSE Some([id |-> message_id])
    /\ chain = None
    /\ other = IdleFrame
    /\ shared = SharedAtStart

FetchTableResult == FetchFrom(TableResultResponses)

FollowUpFetchTableResult == FollowUpFetchFrom(TableResultResponses)

TableNext == FetchTableResult \/ FollowUpFetchTableResult

SpecTable == TableInit /\ [][TableNext]_vars

\* --------------------------------------------- every started step completes

\* The result fetch fails, has no statement, or has one column and one row.
PlainResultResponses ==
    {Raise("HTTPError"), Ok([statement_response |-> None])}
    \cup {Ok(q) : q \in TableResults(1, 1)}

LiveFetchResult == FetchFrom(PlainResultResponses)

LiveFollowUpFetchResult == FollowUpFetchFrom(PlainResultResponses)

\* Each remote call returns, with a response or with a failure, and each sleep ends:
\* a step of an invocation that can be taken is taken.
Fairness ==
    /\ WF_vars(StartConversation)
    /\ WF_vars(PostMessage)
    /\ WF_vars(Poll)
    /\ WF_vars(Sleep)
    /\ WF_vars(LiveFetchResult)
    /\ WF_vars(FollowUpPoll)
    /\ WF_vars(FollowUpSleep)
    /\ WF_vars(LiveFollowUpFetchResult)

\* The tool calls of the poller with every status sequence; the result fetch fails,
\* has no statement, or has one column and one row.
LiveNext ==
    \/ CallAskGenie
    \/ CallFollowUp
    \/ StartConversation
    \/ PostMessage
    \/ Poll
    \/ Sleep
    \/ LiveFetchResult
    \/ FollowUpPoll
    \/ FollowUpSleep
    \/ LiveFollowUpFetchResult

SpecLive == Init /\ [][LiveNext]_vars /\ Fairness

\* ------------------------------------------------- two invocations at a time

\* The running invocation is suspended and the suspended one runs: each keeps its own
\* locals, the module globals are the same for both.
ContextSwitch ==
    /\ other' = Running
    /\ op' = other.op
    /\ pc' = other.pc
    /\ space_id' = other.space_id
    /\ arg_conv' = other.arg_conv
    /\ conversation_id' = other.conversation_id
    /\ message_id' = other.message_id
    /\ attempt' = other.attempt
    /\ msg_data' = other.msg_data
    /\ result_json' = other.result_json
    /\ outcome' = other.outcome
    /\ raised' = other.raised
    /\ n_submit' = other.n_submit
    /\ n_poll' = other.n_poll
    /\ n_fetch' = other.n_fetch
    /\ targets' = other.targets
    /\ waited' = other.waited
    /\ started' = other.started
    /\ seen' = other.seen
    /\ fault' = other.fault
    /\ space_data' = other.space_data
    /\ submitted' = other.submitted
    /\ chain' = other.chain
    /\ UNCHANGED shared

\* The service settles a message by the ConcPolls-th poll; a call fails with an HTTP
\* error only; a COMPLETED message has a list of attachments, the first with text and
\* query.
ConcMessageResponses(k) ==
    {r \in MessageResponses :
        IF r.raise # None THEN r.raise[1] = "HTTPError"
        ELSE /\ r.body[1].status # None
             /\ k >= ConcPolls => r.body[1].status[1] # "EXECUTING_QUERY"
             /\ r.body[1].status[1] = "COMPLETED" =>
                   /\ r.body[1].attachments.shape = "list"
                   /\ r.body[1].attachments.items # <<>> =>
                         /\ r.body[1].attachments.items[1].text # None
                         /\ r.body[1].attachments.items[1].query # None}

\* Each of the two invocations is called once.
ConcCallAskGenie == pc = "idle" /\ CallAskGenie

ConcCallFollowUp == pc = "idle" /\ CallFollowUp

ConcPoll == PollFrom(ConcMessageResponses(attempt + 1))

ConcFollowUpPoll == FollowUpPollFrom(ConcMessageResponses(attempt + 1))

ConcFetchResult == FetchFrom(PlainResultResponses)

ConcFollowUpFetchResult == FollowUpFetchFrom(PlainResultResponses)

ConcNext ==
    \/ ConcCallAskGenie
    \/ ConcCallFollowUp
    \/ StartConversation
    \/ PostMessage
    \/ ConcPoll
    \/ Sleep
    \/ ConcFetchResult
    \/ ConcFollowUpPoll
    \/ FollowUpSleep
    \/ ConcFollowUpFetchResult
    \/ ContextSwitch

SpecConc == Init /\ [][ConcNext]_vars

\* --------------------------------------------------------------- properties

Poller == op \in {"ask_genie", "follow_up"}
Returned == pc = "returned"
Out == outcome[1]
LastSeen == seen[Len(seen)]
NonTerminal(st) == st \notin {"COMPLETED", "FAILED", "CANCELLED", PollRaised, PollNoStatus}

\* The conversation the invocation works on: returned by start-conversation (ask_genie)
\* or supplied by the caller (follow_up).
GivenConv == IF op = "ask_genie" THEN started ELSE arg_conv

\* C1: if the submit succeeds and every poll returns a non-terminal status, the
\* operation issues exactly 60 get_message requests, never a 61st, and returns the
\* timeout outcome, which carries the conversation id; the timeout outcome is returned
\* in no other case.
C1_TimeoutAfterSixtyPolls ==
    Poller =>
        /\ n_poll <= MaxAttempts
        /\ n_poll = Len(seen)
        /\ (Returned /\ message_id # None /\ \A i \in 1..Len(seen) : NonTerminal(seen[i]))
              => /\ n_poll = MaxAttempts
                 /\ Out.kind = "timeout"
                 /\ Out.conv # None
                 /\ Out.conv = GivenConv
        /\ (Returned /\ Out.kind = "timeout")
              => /\ n_poll = MaxAttempts
                 /\ \A i \in 1..Len(seen) : NonTerminal(seen[i])

C1_Witness ==
    /\ op = "follow_up"
    /\ chain # None
    /\ Returned
    /\ Out.kind = "timeout"
    /\ n_poll = MaxAttempts
    /\ Out.conv = arg_conv

\* C2: a poll that returns FAILED or CANCELLED is the last request of the invocation:
\* the operation has returned the terminal-failure outcome naming that status, with no
\* later poll and no result fetch (FAILED on the first poll: one poll in total).
C2_TerminalFailureStopsPolling ==
    Poller =>
        \A i \in 1..Len(seen) :
            seen[i] \in {"FAILED", "CANCELLED"}
                => /\ i = Len(seen)
                   /\ n_poll = i
                   /\ n_fetch = 0
                   /\ Returned
                   /\ Out.kind = "failed"
                   /\ Out.status = Some(seen[i])

C2_Witness ==
    /\ op = "ask_genie"
    /\ Returned
    /\ seen = <<"FAILED">>
    /\ n_poll = 1
    /\ Out.status = Some("FAILED")

\* C3: no operation lets an exception out: whatever a remote call raised and whichever
\* field was missing, in any phase, the operation has returned an outcome that
\* describes the failure.
C3_NoExceptionEscapes ==
    /\ pc # "raised"
    /\ raised = None
    /\ Returned => outcome # None
    /\ fault # None
          => /\ Returned
             /\ outcome # None
             /\ Out.kind \in {"error", "http_error", "request_timeout", "request_error",
                              "json_error", "unexpected_error"}
             /\ Out.exc = Some(fault[1].exc)

C3_Witness ==
    /\ op = "ask_genie"
    /\ Returned
    /\ fault = Fault("poll", "KeyError")
    /\ Out.kind = "error"

\* C4: a failed submit ends the invocation with an error outcome: the submit is issued
\* once, and no get_message and no get_query_result request follows.
C4_SubmitFailureAborts ==
    Poller =>
        /\ n_submit <= 1
        /\ (n_poll > 0 \/ n_fetch > 0) => (n_submit = 1 /\ message_id # None)
        /\ (fault # None /\ fault[1].phase = "submit")
              => /\ Returned
                 /\ Out.kind = "error"
                 /\ n_submit = 1
                 /\ n_poll = 0
                 /\ n_fetch = 0

C4_Witness ==
    /\ op = "follow_up"
    /\ Returned
    /\ fault = Fault("submit", "HTTPError")
    /\ n_poll = 0

\* C5: a get_message that fails on attempt k ends the invocation with an error outcome:
\* it is the last request, whatever is left of the 60 attempts.
C5_PollFailureAborts ==
    Poller =>
        /\ \A i \in 1..Len(seen) :
              seen[i] \in {PollRaised, PollNoStatus}
                  => (i = Len(seen) /\ fault # None /\ fault[1].phase = "poll")
        /\ (fault # None /\ fault[1].phase = "poll")
              => /\ Returned
                 /\ Out.kind = "error"
                 /\ n_poll = Len(seen)
                 /\ LastSeen \in {PollRaised, PollNoStatus}
                 /\ n_fetch = 0

C5_Witness ==
    /\ op = "ask_genie"
    /\ Returned
    /\ fault = Fault("poll", "HTTPError")
    /\ n_poll = 2
    /\ Out.kind = "error"

\* The attachment list of the last get_message body is missing, null or empty.
AttachmentsEmptyOrAbsent ==
    \/ msg_data[1].attachments.shape \in {"absent", "null"}
    \/ msg_data[1].attachments.items = <<>>

\* C6: COMPLETED with an empty or absent attachment list gives the 'completed, no
\* result data' outcome, which is no error outcome, and no get_query_result request.
C6_CompletedWithoutAttachments ==
    (Poller /\ seen # <<>> /\ LastSeen = "COMPLETED" /\ AttachmentsEmptyOrAbsent)
        => /\ Returned
           /\ Out.kind = "no_result_data"
           /\ Out.exc = None
           /\ fault = None
           /\ n_fetch = 0
           /\ \A t \in targets : t.call # "get_query_result"

C6_Witness ==
    /\ op = "follow_up"
    /\ Returned
    /\ seen # <<>>
    /\ LastSeen = "COMPLETED"
    /\ msg_data[1].attachments.shape = "absent"
    /\ Out.kind = "no_result_data"

\* The column list of the fetched result is missing at some level, or empty.
ColumnsEmptyOrAbsent ==
    LET sr == result_json[1].statement_response
    IN \/ sr = None
       \/ sr[1].manifest = None
       \/ sr[1].manifest[1].schema = None
       \/ sr[1].manifest[1].schema[1].columns = None
       \/ sr[1].manifest[1].schema[1].columns[1] = <<>>

\* The row list of the fetched result is missing at some level, or empty.
RowsEmptyOrAbsent ==
    LET sr == result_json[1].statement_response
    IN \/ sr = None
       \/ sr[1].result = None
       \/ sr[1].result[1].data_array = None
       \/ sr[1].result[1].data_array[1] = <<>>

\* The query and the text of the first attachment of the last message body.
GivenQuery ==
    LET a == msg_data[1].attachments.items[1]
    IN IF a.query = None THEN "No SQL." ELSE a.query[1]

GivenText ==
    LET a == msg_data[1].attachments.items[1]
    IN IF a.text = None THEN "No text." ELSE a.text[1]

\* C7: a fetched result whose column schema or whose row data is empty or absent gives
\* the partial outcome: the query and the text of the attachment, the no-data marker,
\* and no table.
C7_NoDataPartialOutcome ==
    (Poller /\ result_json # None /\ (ColumnsEmptyOrAbsent \/ RowsEmptyOrAbsent))
        => /\ Returned
           /\ Out.kind = "no_data_returned"
           /\ Out.sql = Some(GivenQuery)
           /\ Out.text = Some(GivenText)
           /\ Out.table = NoTable
           /\ Out.exc = None

C7_Witness ==
    /\ op = "ask_genie"
    /\ Returned
    /\ result_json # None
    /\ ~ ColumnsEmptyOrAbsent
    /\ RowsEmptyOrAbsent
    /\ Out.kind = "no_data_returned"
    /\ Out.sql = Some("SELECT 1")

\* The columns and the rows of the fetched result, as the service sent them.
GivenColumns == result_json[1].statement_response[1].manifest[1].schema[1].columns[1]
GivenRows == result_json[1].statement_response[1].result[1].data_array[1]

\* The string a cell is shown as: the sentinel for null, str(cell) otherwise.
Stringified(cell) == IF cell = NullCell THEN "NULL" ELSE CellStr(cell)

\* C8: for a non-empty schema and a non-empty row list the success outcome holds the
\* table whose headers are the column names in schema order and whose rows are, in
\* source order, one mapping per source row that gives, for the header at each
\* position, the stringified cell at that position (null as "NULL").
C8_TableMapsEveryHeader ==
    (Poller /\ Returned /\ result_json # None
        /\ ~ ColumnsEmptyOrAbsent /\ ~ RowsEmptyOrAbsent)
        => /\ Out.kind = "success"
           /\ Out.table # NoTable
           /\ LET table == Out.table[1]
              IN /\ table.headers = [i \in 1..Len(GivenColumns) |-> GivenColumns[i].name]
                 /\ Len(table.rows) = Len(GivenRows)
                 /\ \A r \in 1..Len(GivenRows) :
                       \A i \in 1..Len(GivenColumns) :
                           /\ i <= Len(GivenRows[r])
                           /\ table.headers[i] \in DOMAIN table.rows[r]
                           /\ table.rows[r][table.headers[i]] = Stringified(GivenRows[r][i])

\* What the table does satisfy: the same, for the results whose column names are
\* pairwise distinct.
TableFaithfulForDistinctNames ==
    (\A i, j \in 1..Len(GivenColumns) :
        GivenColumns[i].name = GivenColumns[j].name => i = j)
        => C8_TableMapsEveryHeader

TableGuarded ==
    (Poller /\ Returned /\ result_json # None
        /\ ~ ColumnsEmptyOrAbsent /\ ~ RowsEmptyOrAbsent)
        => TableFaithfulForDistinctNames

\* C9: every request of follow_up is addressed to the conversation id the caller gave,
\* and the outcome of an invocation in which no call failed carries that id.
C9_FollowUpCarriesConversation ==
    op = "follow_up" =>
        /\ conversation_id = arg_conv
        /\ \A t \in targets : t.conv = arg_conv
        /\ (Returned /\ fault = None) => Out.conv = arg_conv

\* C10: the outcome of an ask_genie invocation in which no call failed carries the
\* conversation id that start-conversation returned, and a follow_up called with the
\* id read from that outcome posts its message to that conversation.
C10_AskReturnsConversation ==
    /\ (op = "ask_genie" /\ Returned /\ fault = None) => Out.conv = started
    /\ (op = "follow_up" /\ chain # None)
          => \A t \in targets : t.call = "post_message" => t.conv = chain

\* Which outcomes carry the conversation id: the success and the timeout outcome, and
\* no other.
ConversationCarriedBySuccessAndTimeout ==
    (Poller /\ Returned) =>
        IF Out.kind \in {"success", "timeout"}
        THEN Out.conv # None /\ Out.conv = GivenConv
        ELSE Out.conv = None

\* C11: in ask_genie and follow_up every status poll that does not end the polling is
\* followed by one wait of exactly 5 time units before the next poll, so the k-th poll
\* is issued after k-1 waits of 5, and the time waited in the polling phase never
\* exceeds 60 * 5 = 300.
C11_PollsFiveApart ==
    Poller =>
        /\ waited <= 300
        /\ pc = "poll" => waited = 5 * n_poll
        /\ pc = "sleep" => waited = 5 * (n_poll - 1)
        /\ pc = "fetch" => waited = 5 * (n_poll - 1)
        /\ Returned /\ n_poll > 0 /\ Out.kind # "timeout" => waited = 5 * (n_poll - 1)
        /\ Returned /\ Out.kind = "timeout" => waited = 300

C11_Witness ==
    /\ Poller
    /\ Returned
    /\ Out.kind = "timeout"
    /\ n_poll = 60
    /\ waited = 300

\* What an invocation shows after its submit: where it stands, what it returned, how
\* many polls and result fetches it made, and the requests of steps 2 and 3.
Observed(f) ==
    [pc |-> f.pc, outcome |-> f.outcome, n_poll |-> f.n_poll, n_fetch |-> f.n_fetch,
     requests |-> {t \in f.targets : t.call \in {"get_message", "get_query_result"}}]

Shows(at, o, polls, fetches, reqs) ==
    [pc |-> at, outcome |-> o, n_poll |-> polls, n_fetch |-> fetches, requests |-> reqs]

\* What steps 2 and 3 of ask_genie show on the responses an invocation `f` has
\* received so far (its statuses `seen`, the last message body, the fetched result or
\* the exception raised), the waits it has made, and its conversation and message ids.
AskOn(f) ==
    LET k == Len(f.seen)
        conv == f.conversation_id
        poll == {GetMessageTarget(conv, f.message_id)}
        Error(e) == Some(ErrorOutcome(FirstMatch(e, PollerClauses)[1], e))
    IN IF k = 0 THEN Shows("poll", None, 0, 0, {})
       ELSE IF f.seen[k] \in {PollRaised, PollNoStatus}
       THEN Shows("returned", Error(f.fault[1].exc), k, 0, poll)
       ELSE IF f.seen[k] = "COMPLETED"
       THEN IF NoAttachments(f.msg_data[1].attachments)
            THEN Shows("returned", Some(NoResultOutcome), k, 0, poll)
            ELSE LET a == FirstAttachment(f.msg_data[1].attachments)
                     both == poll \cup
                             {QueryResultTarget(conv, f.message_id, a.attachment_id)}
                 IN IF f.result_json = None /\ f.fault = None
                    THEN Shows("fetch", None, k, 0, poll)
                    ELSE IF f.result_json = None
                    THEN Shows("returned", Error(f.fault[1].exc), k, 1, both)
                    ELSE LET schema == SchemaOf(f.result_json[1])
                             rows == RowsOf(f.result_json[1])
                         IN IF NoData(schema, rows)
                            THEN Shows("returned",
                                       Some(NoDataOutcome(Sql(a), QueryText(a))),
                                       k, 1, both)
                            ELSE IF TableRaises(schema, rows)
                            THEN Shows("returned", Error("IndexError"), k, 1, both)
                            ELSE Shows("returned",
                                       Some(SuccessOutcome(Sql(a), QueryText(a),
                                                           BuildTable(schema, rows),
                                                           conv)),
                                       k, 1, both)
       ELSE IF IsTerminalFailure(f.seen[k])
       THEN Shows("returned", Some(FailedOutcome(f.seen[k])), k, 0, poll)
       ELSE IF f.waited # Slept(PollInterval * (k - 1))
       THEN Shows("sleep", None, k, 0, poll)
       ELSE IF LoopContinues(k)
       THEN Shows("poll", None, k, 0, poll)
       ELSE Shows("returned", Some(TimeoutOutcome(conv)), k, 0, poll)

\* C12: after its submit, follow_up shows on the poll responses, the result response
\* and the conversation id it was given exactly what ask_genie's steps 2 and 3 show on
\* them: the same number of polls and of result fetches, the same requests, and an
\* outcome of the same kind with the same query, text, table and conversation id.
C12_FollowUpRunsAskProtocol ==
    Poller /\ message_id # None => Observed(Running) = AskOn(Running)

C12_Witness ==
    /\ op = "follow_up"
    /\ Returned
    /\ Out.kind = "success"
    /\ n_poll = 2
    /\ n_fetch = 1
    /\ AskOn(Running).outcome = outcome

\* The submit request an invocation makes: start-conversation for ask_genie, the post
\* to the conversation it was given for follow_up.
SubmitOf(f) ==
    IF f.op = "ask_genie" THEN Request("start_conversation", None, None, None)
    ELSE PostMessageTarget(f.arg_conv)

\* C13: two invocations of ask_genie / follow_up whose remote calls interleave in any
\* order share nothing they write: the module globals stay as they were at start, and
\* each invocation's requests, poll count, fetch count and outcome are what the
\* operation shows on its own responses when it runs alone.
C13_InvocationsIsolated ==
    /\ shared = SharedAtStart
    /\ \A f \in {Running, other} :
          f.op \in {"ask_genie", "follow_up"} =>
             /\ f.n_submit <= 1
             /\ {t \in f.targets : t.call \in {"start_conversation", "post_message"}}
                   = (IF f.n_submit = 1 THEN {SubmitOf(f)} ELSE {})
             /\ f.message_id # None => Observed(f) = AskOn(f)

\* Both invocations are in flight on the same conversation, one before its result
\* fetch after two polls, the other waiting after its first poll.
C13_Witness ==
    /\ op = "ask_genie"
    /\ pc = "fetch"
    /\ n_poll = 2
    /\ other.op = "follow_up"
    /\ other.pc = "sleep"
    /\ other.n_poll = 1
    /\ other.conversation_id = conversation_id

\* C14: list_spaces returns the same fixed, non-empty sequence of {space id, title}
\* entries, in the same order, on every call, whatever operations ran before and
\* whatever a caller wrote into a list returned earlier: nothing changes the list.
C14_ListSpacesFixed ==
    /\ shared.directory = SpaceDirectory
    /\ Len(SpaceDirectory) = 3
    /\ op = "list_spaces" /\ pc = "returned" =>
          /\ Out.kind = "spaces"
          /\ Out.spaces = Some(SpaceDirectory)

\* list_spaces has returned the list again after the caller wrote into the list of an
\* earlier call.
C14_Witness ==
    /\ op = "list_spaces"
    /\ pc = "returned"
    /\ chain = Some("held list written")
    /\ Out.spaces = Some(SpaceDirectory)

\* C15: on a describe-space response that is a JSON object, get_space_metadata returns
\* the incomplete-data indication, with no metadata in it, whenever one of space_id,
\* title, description is missing, and returns the formatted metadata with the three
\* values of the response exactly when all three are present.
C15_MetadataAllOrNothing ==
    op = "get_space_info" /\ Returned /\ space_data # None =>
        IF \A k \in {"space_id", "title", "description"} : k \in DOMAIN space_data[1]
        THEN /\ Out.kind = "metadata"
             /\ Out.meta # None
             /\ \A k \in {"space_id", "title", "description"} :
                   Out.meta[1][k] = IF space_data[1][k] = None THEN "None"
                                    ELSE space_data[1][k][1]
        ELSE /\ Out.kind = "incomplete"
             /\ Out.meta = None

\* The response has the id and the title but no description.
C15_Witness ==
    /\ op = "get_space_info"
    /\ Returned
    /\ space_data # None
    /\ DOMAIN space_data[1] = {"space_id", "title"}
    /\ Out.kind = "incomplete"
    /\ Out.meta = None

\* The invocation with every attachment after the first removed from the message it
\* received.
FirstAttachmentOnly(f) ==
    LET first == f.msg_data[1].attachments.items[1]
    IN [f EXCEPT !.msg_data = Some([f.msg_data[1] EXCEPT !.attachments.items = <<first>>])]

\* C16: when the message is COMPLETED with one or more attachments, the text (default
\* "No text."), the query (default "No SQL.") and the attachment id of the result fetch
\* are those of the first attachment, and requests and outcome are the same as on the
\* message with the later attachments removed.
C16_FirstAttachmentOnly ==
    Poller /\ seen # <<>> /\ LastSeen = "COMPLETED" /\ ~ AttachmentsEmptyOrAbsent =>
        LET first == msg_data[1].attachments.items[1]
            fetches == {t \in targets : t.call = "get_query_result"}
        IN /\ n_fetch = 1 => fetches = {Request("get_query_result", conversation_id,
                                                 message_id, first.attachment_id)}
           /\ n_fetch = 0 => fetches = {}
           /\ Returned /\ Out.kind \in {"success", "no_data_returned"} =>
                 /\ Out.text = Some(IF first.text = None THEN "No text." ELSE first.text[1])
                 /\ Out.sql = Some(IF first.query = None THEN "No SQL." ELSE first.query[1])
           /\ Observed(Running) = AskOn(FirstAttachmentOnly(Running))

\* A success on a message with two attachments, the first without text and query.
C16_Witness ==
    /\ Poller
    /\ Returned
    /\ Out.kind = "success"
    /\ Len(msg_data[1].attachments.items) = 2
    /\ msg_data[1].attachments.items[1].text = None
    /\ msg_data[1].attachments.items[1].query = None
    /\ Out.text = Some("No text.")
    /\ Out.sql = Some("No SQL.")

\* C17: the requests of an invocation of ask_genie / follow_up come in the order
\* submit, polls, result fetch: one submit, before anything else; get_query_result at
\* most once, only after a poll that returned COMPLETED with a non-empty attachment
\* list, and nothing after it.
C17_SubmitPollsFetch ==
    Poller =>
        /\ n_submit <= 1
        /\ n_fetch <= 1
        /\ pc = "submit" <=> n_submit = 0
        /\ n_submit = 0 => n_poll = 0 /\ n_fetch = 0 /\ targets = {}
        /\ n_poll = Len(seen)
        /\ pc = "fetch" => n_fetch = 0
        /\ (pc = "fetch" \/ n_fetch = 1) =>
              /\ seen # <<>>
              /\ LastSeen = "COMPLETED"
              /\ ~ AttachmentsEmptyOrAbsent
        /\ n_fetch = 1 => Returned

C17_Witness ==
    /\ Poller
    /\ Returned
    /\ n_submit = 1
    /\ n_poll = 3
    /\ n_fetch = 1
    /\ fault # None
    /\ fault[1].phase = "fetch"

\* The message id the submit returned.
SubmittedMessage ==
    IF op = "ask_genie" THEN submitted[1].message ELSE submitted[1].id

\* C18: every get_message and the get_query_result of an invocation are addressed to
\* one (conversation id, message id) pair: the conversation of the invocation and the
\* message id its own submit returned.
C18_OnePairPerInvocation ==
    Poller =>
        /\ Cardinality({<<t.conv, t.msg>> : t \in {u \in targets :
                            u.call \in {"get_message", "get_query_result"}}}) <= 1
        /\ \A t \in targets :
              t.call \in {"get_message", "get_query_result"} =>
                  /\ submitted # None
                  /\ GivenConv # None
                  /\ SubmittedMessage # None
                  /\ t.conv = GivenConv
                  /\ t.msg = SubmittedMessage

C18_Witness ==
    /\ Poller
    /\ Returned
    /\ n_poll = 2
    /\ n_fetch = 1
    /\ Cardinality({t \in targets : t.call = "get_message"}) = 1
    /\ Cardinality({t \in targets : t.call = "get_query_result"}) = 1

\* C19: the outcome is decided by the first terminal status among at most 60 polls.
\* When the k-th poll, 1 <= k <= 60, is the first to return COMPLETED, the invocation
\* goes on to the attachments and the result fetch after exactly k polls and, unless a
\* call fails, returns a completed-kind outcome; FAILED or CANCELLED gives the failed
\* outcome; the timeout outcome is returned only after 60 non-terminal polls.
C19_FirstTerminalStatusDecides ==
    Poller /\ seen # <<>> =>
        /\ Len(seen) <= 60
        /\ n_poll = Len(seen)
        /\ \A i \in 1..(Len(seen) - 1) : NonTerminal(seen[i])
        /\ LastSeen = "COMPLETED" =>
              /\ pc \in {"fetch", "returned"}
              /\ Returned =>
                    /\ Out.kind \in {"success", "no_result_data", "no_data_returned",
                                      "error"}
                    /\ Out.kind = "error" <=> fault # None
                    /\ Out.kind # "timeout"
        /\ LastSeen \in {"FAILED", "CANCELLED"} =>
              Returned /\ Out.kind = "failed" /\ Out.status = Some(LastSeen)
        /\ Returned /\ Out.kind = "timeout" =>
              Len(seen) = 60 /\ \A i \in 1..60 : NonTerminal(seen[i])
        /\ Returned /\ NonTerminal(LastSeen) => Out.kind = "timeout"

\* COMPLETED arrives at the 60th poll and the invocation returns the result.
C19_Witness ==
    /\ Poller
    /\ Returned
    /\ Len(seen) = 60
    /\ LastSeen = "COMPLETED"
    /\ n_poll = 60
    /\ Out.kind = "success"

InFlight == Poller /\ pc \in {"submit", "poll", "sleep", "fetch"}

\* C20: provided every remote call returns and every sleep ends, an invocation of
\* ask_genie / follow_up returns, whatever statuses the service reports, and it does so
\* with exactly one outcome after at most one submit, at most 60 polls and at most one
\* result fetch.
C20_InvocationTerminates ==
    /\ [](Poller => /\ n_submit <= 1
                    /\ n_poll <= 60
                    /\ n_fetch <= 1
                    /\ pc \in {"submit", "poll", "sleep", "fetch", "returned"}
                    /\ Returned <=> outcome # None
                    /\ raised = None)
    /\ InFlight ~> Returned

\* An invocation that used its whole budget: one submit, 60 polls, the 60th COMPLETED,
\* one result fetch.
C20_Witness ==
    /\ Poller
    /\ Returned
    /\ n_submit = 1
    /\ n_poll = 60
    /\ n_fetch = 1

====
